---- MODULE Spec2Model ----
(***************************************************************************)
(* Model of grub_install's Target (python3/grub_install/_target.py) and    *)
(* the filesystem helpers of python3/grub_install/_util.py.                *)
(*                                                                         *)
(* The boot directory is modelled as the set of paths the code touches:    *)
(*   <boot>/grub, <boot>/grub/<platform>/, the core image and load.cfg in  *)
(*   each platform directory, <boot>/grub/boot.img, <boot>/grub/core.img,  *)
(*   <boot>/grub/{locale,fonts,themes}, <boot>/grub/grubenv, <boot>/EFI,   *)
(*   <boot>/EFI/BOOT and the standard-named files below it.                *)
(* Python's assert statements are enabled (the interpreter's default).     *)
(* Byte offsets are scaled: one disk sector is DISK_SECTOR_SIZE bytes and  *)
(* every region of the boot sector keeps its order and is at least one     *)
(* byte long.                                                              *)
(***************************************************************************)
EXTENDS Integers, Sequences, FiniteSets, TLC

(***************************************************************************)
(* Bounds of the model.                                                    *)
(***************************************************************************)
\* largest number of platform directories under <boot>/grub before construction
MaxInitPlats == 1
\* the MBR gap threshold, counted in sectors (512 KiB = 1024 sectors in the code)
MbrGapSectors == 2

(***************************************************************************)
(* Constants of Grub (python3/grub_install/_handy.py), scaled.             *)
(***************************************************************************)
DISK_SECTOR_SIZE == 8
BOOT_MACHINE_BPB_START == 1
BOOT_MACHINE_BPB_END == 2
BOOT_MACHINE_DRIVE_CHECK == 3
BOOT_MACHINE_WINDOWS_NT_MAGIC == 6
BOOT_MACHINE_PART_END == 7

\* _Bios._getMbrGapSizeThreshold: 512 * 1024 bytes, i.e. 1024 sectors of 512 bytes
Bios_getMbrGapSizeThreshold == MbrGapSectors * DISK_SECTOR_SIZE

(***************************************************************************)
(* PlatformType (python3/grub_install/_const.py): the BIOS platform, two   *)
(* EFI platforms and the "native disk" platforms; the string is the value  *)
(* of the enumeration member, which is also its directory name.            *)
(***************************************************************************)
I386_PC == "i386-pc"
X86_64_EFI == "x86_64-efi"
I386_EFI == "i386-efi"
I386_MULTIBOOT == "i386-multiboot"
I386_COREBOOT == "i386-coreboot"
I386_QEMU == "i386-qemu"
MIPSEL_LOONGSON == "mipsel-loongson"
PlatformType == {I386_PC, X86_64_EFI, I386_EFI, I386_MULTIBOOT, I386_COREBOOT, I386_QEMU, MIPSEL_LOONGSON}

\* the platforms the calls of a Target's life are made with
LifecyclePlatforms == {I386_PC, X86_64_EFI, I386_EFI, I386_MULTIBOOT}

\* Handy.isPlatformCoreboot, Handy.isPlatformQemu
isPlatformCoreboot(pt) == pt \in {I386_COREBOOT}
isPlatformQemu(pt) == pt \in {I386_QEMU}

\* Handy.isPlatformEfi
isPlatformEfi(pt) == pt \in {X86_64_EFI, I386_EFI}

\* Handy.getStandardEfiFilename
getStandardEfiFilename(pt) ==
    IF pt = X86_64_EFI THEN "BOOTX64.EFI"
    ELSE IF pt = I386_EFI THEN "BOOTIA32.EFI"
    ELSE "-"

EfiFilenames == {getStandardEfiFilename(pt) : pt \in {q \in PlatformType : isPlatformEfi(q)}}

\* Grub.getGrubFsName: the grub module that drives a filesystem
getGrubFsName(fs) == IF fs = "vfat" THEN "fat" ELSE IF fs = "ext4" THEN "ext2" ELSE fs

(***************************************************************************)
(* Bytes, buffers and files.                                               *)
(***************************************************************************)
Min(a, b) == IF a < b THEN a ELSE b
Max(a, b) == IF a > b THEN a ELSE b

\* Python's buf[s:e] on a bytes object (0-based, end exclusive, clamped)
Slice(buf, s, e) ==
    IF Min(e, Len(buf)) <= s THEN <<>> ELSE SubSeq(buf, s + 1, Min(e, Len(buf)))

\* Python's buf[s:]
SliceFrom(buf, s) == Slice(buf, s, Len(buf))

\* Python's bootBuf[s:e] = tmpBuf[s:e] on a bytearray
SpliceSlice(buf, s, e, src) ==
    Slice(buf, 0, s) \o Slice(src, s, e) \o SliceFrom(buf, e)

\* Python's bootBuf[i] = b on a bytearray
SetByte(buf, i, b) == [buf EXCEPT ![i + 1] = b]

\* a regular file with the given content, and a path where nothing exists
File(data) == [ex |-> TRUE, data |-> data]
NoFile == [ex |-> FALSE, data |-> <<>>]

\* f.read(n) on a file opened at offset off
ReadAt(content, off, n) == Slice(content, off, off + n)

\* f.write of buf at offset 0 of a block device: the bytes behind it stay
WriteAt0(content, buf) == buf \o SliceFrom(content, Len(buf))

\* filecmp.cmp(f1, f2, shallow=False) on two existing regular files
filecmp_cmp(d1, d2) ==
    /\ Len(d1) = Len(d2)
    /\ \A i \in 1..Len(d1) : d1[i] = d2[i]

\* _util.compare_files: "FileNotFoundError" when os.stat fails on either path
compare_files(f1, f2) ==
    IF ~f1.ex \/ ~f2.ex THEN "FileNotFoundError"
    ELSE IF filecmp_cmp(f1.data, f2.data) THEN "True" ELSE "False"

(***************************************************************************)
(* Contents used for files and devices.                                    *)
(***************************************************************************)
NOP == 144             \* 0x90

\* a boot.img of exactly one sector; bytes 3,4 (0-based) are the drive check jmp
BootImgGood == <<235, 99, 250, 116, 2, 178, 128, 170>>
\* a boot.img that is one byte short of a sector
BootImgShort == <<235, 99, 250, 116, 2, 178, 128>>

\* core images: one sector, one sector with a single byte changed, too short, too long
CoreA == [i \in 1..DISK_SECTOR_SIZE |-> 16 + i]
CoreB == [CoreA EXCEPT ![DISK_SECTOR_SIZE] = 0]
CoreShort == [i \in 1..(DISK_SECTOR_SIZE - 1) |-> 16 + i]
CoreLong == [i \in 1..(Bios_getMbrGapSizeThreshold + 1) |-> 32]

\* a blank device: an MBR sector with a BPB byte and a partition table byte, zeros behind
DevLen == DISK_SECTOR_SIZE + Bios_getMbrGapSizeThreshold + 1
DevBlank == [i \in 1..DevLen |-> IF i = BOOT_MACHINE_BPB_START + 1 THEN 77
                                 ELSE IF i = BOOT_MACHINE_WINDOWS_NT_MAGIC + 1 THEN 88
                                 ELSE 0]

\* the device as a BIOS install of (boot, core) leaves it, with the given drive check bytes
DevInstalled(boot, core, dc) ==
    WriteAt0(DevBlank,
             SetByte(SetByte(SpliceSlice(SpliceSlice(boot, BOOT_MACHINE_BPB_START, BOOT_MACHINE_BPB_END, DevBlank),
                                         BOOT_MACHINE_WINDOWS_NT_MAGIC, BOOT_MACHINE_PART_END, DevBlank),
                             BOOT_MACHINE_DRIVE_CHECK, dc[1]),
                     BOOT_MACHINE_DRIVE_CHECK + 1, dc[2]) \o core)

(***************************************************************************)
(* Block devices: the path (a sequence of characters), what the path       *)
(* really is, and what parted reports for it (partition table type, start  *)
(* sectors of the primary partitions, in sectors of DISK_SECTOR_SIZE).     *)
(***************************************************************************)
Digits == {"0", "1", "2", "3", "4", "5", "6", "7", "8", "9"}

Device(path, isPartition, ptype, primaries) ==
    [has |-> TRUE, path |-> path, isPartition |-> isPartition, ptype |-> ptype, primaries |-> primaries]
\* a staging-directory target has no _dev attribute
NoDevice == [has |-> FALSE, path |-> <<>>, isPartition |-> FALSE, ptype |-> "-", primaries |-> <<>>]

DevSda == Device(<<"s", "d", "a">>, FALSE, "msdos", <<>>)
DevSdaGap == Device(<<"s", "d", "a">>, FALSE, "msdos", <<MbrGapSectors>>)
DevSdaNoGap == Device(<<"s", "d", "a">>, FALSE, "msdos", <<1>>)
DevSdaGpt == Device(<<"s", "d", "a">>, FALSE, "gpt", <<>>)
DevSda1 == Device(<<"s", "d", "a", "1">>, TRUE, "msdos", <<>>)
DevNvme == Device(<<"n", "v", "m", "e", "0", "n", "1">>, FALSE, "msdos", <<>>)
DevNvmeGap == Device(<<"n", "v", "m", "e", "0", "n", "1">>, FALSE, "msdos", <<MbrGapSectors>>)
AllDevices == {DevSda, DevSdaGap, DevSdaNoGap, DevSdaGpt, DevSda1, DevNvme, DevNvmeGap}

(***************************************************************************)
(* Mount descriptors returned by Grub.probeMnt, and payload sources.       *)
(***************************************************************************)
\* a path is the sequence of its characters
Root == <<"/">>
PathBoot == <<"/", "b", "o", "o", "t">>

\* os.path.join(a, b) for a relative b
os_path_join(a, b) ==
    IF Len(a) = 0 THEN b
    ELSE IF a[Len(a)] = "/" THEN a \o b
    ELSE a \o <<"/">> \o b

\* s.startswith(prefix)
startswith(s, prefix) ==
    Len(prefix) <= Len(s) /\ \A i \in 1..Len(prefix) : s[i] = prefix[i]

\* s.find(old, i): the first index from i on at which old occurs, 0 when there is none
str_find(s, old, i) ==
    LET hits == {k \in i..(Len(s) - Len(old) + 1) : \A j \in 1..Len(old) : s[k + j - 1] = old[j]}
    IN IF hits = {} THEN 0 ELSE CHOOSE k \in hits : \A h \in hits : k <= h

\* s.replace(old, new) for a non-empty old, from index i on: every non-overlapping
\* occurrence of old, found from the left, is replaced
RECURSIVE str_replace_from(_, _, _, _)
str_replace_from(s, old, new, i) ==
    LET k == str_find(s, old, i)
    IN IF k = 0 THEN SubSeq(s, i, Len(s))
       ELSE SubSeq(s, i, k - 1) \o new \o str_replace_from(s, old, new, k + Len(old))

\* s.replace(old, new)
str_replace(s, old, new) == str_replace_from(s, old, new, 1)

\* the directories a directory lies below, itself included: the mount points
\* Grub.probeMnt can report for it
Ancestors(path) ==
    {[i \in 1..n |-> path[i]] : n \in {k \in 1..Len(path) : k = 1 \/ k = Len(path) \/ path[k + 1] = "/"}}

MountAt(uuid, fs, mnt_pt) == [fs |-> fs, mnt_pt |-> mnt_pt, fs_uuid |-> uuid]
\* a mount of the boot directory itself
Mount(uuid, fs) == MountAt(uuid, fs, PathBoot)
Mounts == {Mount("ABCD-1234", "vfat"), Mount("None", "vfat"), Mount("ABCD-1234", "ext4")}
NotProbed == Mount("-", "-")

\* a Source: the boot.img of its i386-pc directory and the core image its image-maker builds
Source(boot, core) == [core |-> core, bootImg |-> boot]
Sources == {Source(BootImgGood, CoreA)}

(***************************************************************************)
(* PlatformInstallInfo: attributes not set on the object are "unset".      *)
(***************************************************************************)
NOT_EXIST == "NOT_EXIST"
EXIST == "EXIST"
BOOTABLE == "BOOTABLE"

PlatformInstallInfo(status) ==
    [status |-> status, mbr_installed |-> "unset", allow_floppy |-> "unset", rs_codes |-> "unset",
     removable |-> "unset", nvram |-> "unset"]

PyBool(b) == IF b THEN "True" ELSE "False"

(***************************************************************************)
(* The boot directory.  A path is a sequence of names below <boot>.        *)
(*   grub      <boot>/grub is a directory                                  *)
(*   plat      <boot>/grub/<platform>: [ex, core, loadcfg]                 *)
(*   bootImg   <boot>/grub/boot.img                                        *)
(*   coreImg   <boot>/grub/core.img                                        *)
(*   data      which of <boot>/grub/{locale,fonts,themes} exist            *)
(*   grubenv   <boot>/grub/grubenv exists                                  *)
(*   efi       <boot>/EFI is a directory                                   *)
(*   efiBoot   <boot>/EFI/BOOT is a directory                              *)
(*   efiFiles  <boot>/EFI/BOOT/<standard name>                             *)
(*   efiOther  <boot>/EFI holds an entry other than BOOT                   *)
(***************************************************************************)
DataNames == {"locale", "fonts", "themes"}

\* a platform directory that does not exist, and one holding a core image and a load.cfg
NoPlatDir == [ex |-> FALSE, core |-> NoFile, loadcfg |-> FALSE]
PlatDir(core, loadcfg) == [ex |-> TRUE, core |-> core, loadcfg |-> loadcfg]

EmptyBoot ==
    [grub |-> FALSE, plat |-> [pt \in PlatformType |-> NoPlatDir], bootImg |-> NoFile, coreImg |-> NoFile,
     data |-> {}, grubenv |-> FALSE,
     efi |-> FALSE, efiBoot |-> FALSE, efiFiles |-> [n \in EfiFilenames |-> NoFile], efiOther |-> FALSE]

PathGrub == <<"grub">>
PathEfi == <<"EFI">>
PathEfiBoot == <<"EFI", "BOOT">>

\* os.path.isdir
isdir(fs, path) ==
    IF path = PathGrub THEN fs.grub
    ELSE IF path = PathEfi THEN fs.efi
    ELSE IF path = PathEfiBoot THEN fs.efiBoot
    ELSE IF Len(path) = 2 /\ path[1] = "grub" /\ path[2] \in PlatformType THEN fs.plat[path[2]].ex
    ELSE IF Len(path) = 2 /\ path[1] = "grub" /\ path[2] \in DataNames THEN path[2] \in fs.data
    ELSE FALSE

\* os.path.isfile
isfile(fs, path) ==
    IF Len(path) = 2 /\ path[1] = "grub" /\ path[2] = "boot.img" THEN fs.bootImg.ex
    ELSE IF Len(path) = 2 /\ path[1] = "grub" /\ path[2] = "core.img" THEN fs.coreImg.ex
    ELSE IF Len(path) = 2 /\ path[1] = "grub" /\ path[2] = "grubenv" THEN fs.grubenv
    ELSE IF Len(path) = 3 /\ path[1] = "EFI" /\ path[2] = "BOOT" /\ path[3] \in EfiFilenames
         THEN fs.efiFiles[path[3]].ex
    ELSE FALSE

\* os.path.exists
exists(fs, path) == isdir(fs, path) \/ isfile(fs, path)

\* os.listdir of a directory that exists
listdir(fs, path) ==
    IF path = PathGrub
    THEN {pt \in PlatformType : fs.plat[pt].ex} \cup fs.data
         \cup (IF fs.bootImg.ex THEN {"boot.img"} ELSE {})
         \cup (IF fs.coreImg.ex THEN {"core.img"} ELSE {})
         \cup (IF fs.grubenv THEN {"grubenv"} ELSE {})
    ELSE IF path = PathEfi
    THEN (IF fs.efiBoot THEN {"BOOT"} ELSE {}) \cup (IF fs.efiOther THEN {"other"} ELSE {})
    ELSE IF path = PathEfiBoot
    THEN {n \in EfiFilenames : fs.efiFiles[n].ex}
    ELSE {}

\* os.remove of a file, os.rmdir of an empty directory, shutil.rmtree of a directory
unlink(fs, path) ==
    IF path = PathGrub
    THEN [fs EXCEPT !.grub = FALSE, !.plat = EmptyBoot.plat, !.bootImg = NoFile, !.coreImg = NoFile,
                    !.data = {}, !.grubenv = FALSE]
    ELSE IF path = PathEfi
    THEN [fs EXCEPT !.efi = FALSE, !.efiBoot = FALSE, !.efiFiles = EmptyBoot.efiFiles, !.efiOther = FALSE]
    ELSE IF path = PathEfiBoot
    THEN [fs EXCEPT !.efiBoot = FALSE, !.efiFiles = EmptyBoot.efiFiles]
    ELSE IF Len(path) = 2 /\ path[1] = "grub" /\ path[2] \in PlatformType
    THEN [fs EXCEPT !.plat[path[2]] = NoPlatDir]
    ELSE IF Len(path) = 2 /\ path[1] = "grub" /\ path[2] \in DataNames
    THEN [fs EXCEPT !.data = @ \ {path[2]}]
    ELSE IF Len(path) = 2 /\ path[1] = "grub" /\ path[2] = "boot.img" THEN [fs EXCEPT !.bootImg = NoFile]
    ELSE IF Len(path) = 2 /\ path[1] = "grub" /\ path[2] = "core.img" THEN [fs EXCEPT !.coreImg = NoFile]
    ELSE IF Len(path) = 2 /\ path[1] = "grub" /\ path[2] = "grubenv" THEN [fs EXCEPT !.grubenv = FALSE]
    ELSE IF Len(path) = 3 /\ path[1] = "EFI" /\ path[2] = "BOOT" /\ path[3] \in EfiFilenames
    THEN [fs EXCEPT !.efiFiles[path[3]] = NoFile]
    ELSE fs

\* os.mkdir of a path that does not exist and whose parent does
mkdir(fs, path) ==
    IF path = PathGrub THEN [fs EXCEPT !.grub = TRUE]
    ELSE IF path = PathEfi THEN [fs EXCEPT !.efi = TRUE]
    ELSE IF path = PathEfiBoot THEN [fs EXCEPT !.efiBoot = TRUE]
    ELSE IF Len(path) = 2 /\ path[1] = "grub" /\ path[2] \in PlatformType
    THEN [fs EXCEPT !.plat[path[2]] = PlatDir(NoFile, FALSE)]
    ELSE IF Len(path) = 2 /\ path[1] = "grub" /\ path[2] \in DataNames
    THEN [fs EXCEPT !.data = @ \cup {path[2]}]
    ELSE fs

\* _util.force_rm
force_rm(fs, path) ==
    IF isfile(fs, path) THEN unlink(fs, path)
    ELSE IF isdir(fs, path) THEN unlink(fs, path)
    ELSE fs

\* _util.force_mkdir: a directory that is already there is removed with all it holds
force_mkdir(fs, path) ==
    IF isfile(fs, path) THEN mkdir(unlink(fs, path), path)
    ELSE IF isdir(fs, path) THEN mkdir(unlink(fs, path), path)
    ELSE mkdir(fs, path)

\* the result of a helper that can raise: res is "ok" or the exception's name
Done(fs) == [res |-> "ok", fs |-> fs]
Raised(exc, fs) == [res |-> exc, fs |-> fs]

\* _util.rmdir_if_empty: os.listdir raises when the directory does not exist
rmdir_if_empty(fs, path) ==
    IF ~isdir(fs, path) THEN Raised("FileNotFoundError", fs)
    ELSE IF Cardinality(listdir(fs, path)) = 0 THEN Done(unlink(fs, path))
    ELSE Done(fs)

(***************************************************************************)
(* The dict Target._platforms, as a sequence of [k, v] in insertion order. *)
(***************************************************************************)
Keys(d) == {d[i].k : i \in 1..Len(d)}
IndexOfKey(d, k) == CHOOSE i \in 1..Len(d) : d[i].k = k
Get(d, k) == d[IndexOfKey(d, k)].v
\* d[k] = v: an existing key keeps its place
Put(d, k, v) ==
    IF k \in Keys(d) THEN [d EXCEPT ![IndexOfKey(d, k)] = [k |-> k, v |-> v]]
    ELSE Append(d, [k |-> k, v |-> v])
\* del d[k]
Del(d, k) ==
    LET i == IndexOfKey(d, k)
    IN SubSeq(d, 1, i - 1) \o SubSeq(d, i + 1, Len(d))

\* every order in which os.listdir can return the entries of a set
Orders(S) == {q \in [1..Cardinality(S) -> S] : \A i, j \in 1..Cardinality(S) : q[i] = q[j] => i = j}

(***************************************************************************)
(* Grub helpers (python3/grub_install/_handy.py) that write below <boot>.  *)
(***************************************************************************)
\* Grub.copyPlatformFiles: the platform's directory exists afterwards
copyPlatformFiles(fs, pt, src) ==
    IF fs.plat[pt].ex THEN [fs EXCEPT !.grub = TRUE] ELSE [fs EXCEPT !.grub = TRUE, !.plat[pt] = PlatDir(NoFile, FALSE)]

\* Grub.makeCoreImage: writes the core image the source's image-maker builds
makeCoreImage(fs, pt, src) == [fs EXCEPT !.plat[pt].core = File(src.core)]

\* Grub.copyLocaleFiles, Grub.copyFontFiles, Grub.copyThemeFiles
copyDataFiles(fs, name) == [fs EXCEPT !.data = @ \cup {name}]

\* Grub.createEnvBlkFile: creates the file in a directory that has to exist
createEnvBlkFile(fs) == IF fs.grub THEN Done([fs EXCEPT !.grubenv = TRUE]) ELSE Raised("FileNotFoundError", fs)

(***************************************************************************)
(* class _Common                                                           *)
(***************************************************************************)
\* _Common.init_platforms: order is the order in which os.listdir returns the entries
Common_init_platforms(fs, order) ==
    IF isdir(fs, PathGrub)
    THEN [i \in 1..Len(order) |-> [k |-> order[i], v |-> PlatformInstallInfo(BOOTABLE)]]
    ELSE <<>>

\* _Common.install_platform: the disk module chosen for the platform
Common_disk_module(pt) ==
    IF pt = I386_PC THEN "biosdisk"
    ELSE IF pt = I386_MULTIBOOT THEN "native"
    ELSE IF isPlatformCoreboot(pt) THEN "native"
    ELSE IF isPlatformQemu(pt) THEN "native"
    ELSE IF pt = MIPSEL_LOONGSON THEN "native"
    ELSE "None"

\* a variant of the moduleList that appends search_fs_uuid before the filesystem module
Common_moduleList_search_first(pt, m) ==
    LET disk == IF Common_disk_module(pt) = "None" THEN <<>>
                ELSE IF Common_disk_module(pt) = "biosdisk" THEN <<"biosdisk">>
                ELSE <<"pata">> \o <<"ahci">> \o <<"ohci", "uhci", "ehci", "ubms">>
    IN Append(Append(disk, "search_fs_uuid"), getGrubFsName(m.fs))

\* _Common.install_platform: moduleList as it is when Grub.makeCoreImage is called
Common_moduleList(pt, m) ==
    LET disk == IF Common_disk_module(pt) = "None" THEN <<>>
                ELSE IF Common_disk_module(pt) = "biosdisk" THEN <<"biosdisk">>
                ELSE <<"pata">> \o <<"ahci">> \o <<"ohci", "uhci", "ehci", "ubms">>
    IN Append(Append(disk, getGrubFsName(m.fs)), "search_fs_uuid")

\* no image was made: Grub.makeCoreImage was not called
NoModules == <<>>

\* the two lines of load.cfg: `search.fs_uuid <uuid> root` and `set prefix=($root)'<prefix>'`
LoadCfg(uuid, prefix) == [written |-> TRUE, uuid |-> uuid, prefix |-> prefix]
\* load.cfg was not written
NoLoadCfg == [written |-> FALSE, uuid |-> "-", prefix |-> <<>>]

\* _Common.install_platform: relGrubDir
Common_relGrubDir(bootDir, m) ==
    LET grubDir == os_path_join(bootDir, <<"g", "r", "u", "b">>)
    IN str_replace(grubDir, m.mnt_pt, <<>>)

\* a variant of _Common.install_platform that looks at the filesystem type only after
\* the platform files are copied
Common_install_platform_copy_first(fs, bootDir, m, pt, src) ==
    IF m.fs_uuid = "None"
    THEN [res |-> "Exception", fs |-> fs, modules |-> NoModules, loadcfg |-> NoLoadCfg]
    ELSE LET fs1 == copyPlatformFiles(fs, pt, src)
             fs2 == [fs1 EXCEPT !.plat[pt].loadcfg = TRUE]
         IN IF isPlatformEfi(pt) /\ m.fs # "vfat"
            THEN [res |-> "Exception", fs |-> fs1, modules |-> NoModules, loadcfg |-> NoLoadCfg]
            ELSE [res |-> "ok", fs |-> makeCoreImage(fs2, pt, src), modules |-> Common_moduleList(pt, m),
                  loadcfg |-> LoadCfg(m.fs_uuid, Common_relGrubDir(bootDir, m))]

\* _Common.install_platform; modules is the moduleList Grub.makeCoreImage was called with,
\* loadcfg what was written to load.cfg
Common_install_platform(fs, bootDir, m, pt, src) ==
    IF m.fs_uuid = "None"
    THEN [res |-> "Exception", fs |-> fs, modules |-> NoModules, loadcfg |-> NoLoadCfg]
    ELSE IF isPlatformEfi(pt) /\ m.fs # "vfat"
    THEN [res |-> "Exception", fs |-> fs, modules |-> NoModules, loadcfg |-> NoLoadCfg]
    ELSE LET fs1 == copyPlatformFiles(fs, pt, src)
             fs2 == [fs1 EXCEPT !.plat[pt].loadcfg = TRUE]
         IN [res |-> "ok", fs |-> makeCoreImage(fs2, pt, src), modules |-> Common_moduleList(pt, m),
             loadcfg |-> LoadCfg(m.fs_uuid, Common_relGrubDir(bootDir, m))]

\* _Common.remove_platform
Common_remove_platform(fs, pt) == force_rm(fs, <<"grub", pt>>)

\* _Common.remove_remaining_crufts
Common_remove_remaining_crufts(fs) == force_rm(fs, PathGrub)

\* _Common.check
Common_check(fs, d) ==
    IF isdir(fs, PathGrub) THEN "ok"
    ELSE IF Len(d) > 0 THEN "Exception" ELSE "ok"

(***************************************************************************)
(* class _Efi                                                              *)
(***************************************************************************)
\* _Efi.check_and_fill_platform_install_info
Efi_check_and_fill_platform_install_info(pt, info, fs) ==
    LET coreFullfn == fs.plat[pt].core
        efiFullfn == fs.efiFiles[getStandardEfiFilename(pt)]
        cmp == compare_files(coreFullfn, efiFullfn)
    IN IF ~efiFullfn.ex THEN [res |-> "ok", info |-> [info EXCEPT !.status = EXIST]]
       ELSE IF cmp = "FileNotFoundError" THEN [res |-> "FileNotFoundError", info |-> info]
       ELSE IF cmp = "False" THEN [res |-> "ok", info |-> [info EXCEPT !.status = EXIST]]
       ELSE [res |-> "ok", info |-> [info EXCEPT !.removable = "True", !.nvram = "False"]]

\* a variant of _Efi.install_platform that copies the core image before it makes EFI/BOOT
Efi_install_platform_copy_first(pt, info, src, fs) ==
    LET fs1 == force_mkdir(fs, PathEfi)
        core == fs1.plat[pt].core
        fs2 == [fs1 EXCEPT !.efiFiles[getStandardEfiFilename(pt)] = File(core.data)]
        fs3 == force_mkdir([fs2 EXCEPT !.efiBoot = TRUE], PathEfiBoot)
    IN IF ~core.ex THEN [res |-> "FileNotFoundError", fs |-> fs1, info |-> info]
       ELSE [res |-> "ok", fs |-> fs3,
             info |-> [info EXCEPT !.removable = "True", !.nvram = "False"]]

\* _Efi.install_platform
Efi_install_platform(pt, info, src, fs) ==
    LET fs1 == force_mkdir(fs, PathEfi)
        fs2 == force_mkdir(fs1, PathEfiBoot)
        core == fs2.plat[pt].core
    IN IF ~core.ex THEN [res |-> "FileNotFoundError", fs |-> fs2, info |-> info]
       ELSE [res |-> "ok",
             fs |-> [fs2 EXCEPT !.efiFiles[getStandardEfiFilename(pt)] = File(core.data)],
             info |-> [info EXCEPT !.removable = "True", !.nvram = "False"]]

\* _Efi.remove_platform
Efi_remove_platform(pt, fs) ==
    LET fs1 == force_rm(fs, <<"EFI", "BOOT", getStandardEfiFilename(pt)>>)
        r2 == rmdir_if_empty(fs1, PathEfiBoot)
    IN IF r2.res # "ok" THEN r2 ELSE rmdir_if_empty(r2.fs, PathEfi)

\* _Efi.remove_remaining_crufts
Efi_remove_remaining_crufts(fs) == force_rm(fs, PathEfi)

(***************************************************************************)
(* class _Bios                                                             *)
(***************************************************************************)
\* locals of _Bios.check_and_fill_platform_install_info before its loop
NoLoop == [bOk |-> FALSE, bAllowFloppy |-> "None"]

\* one pass over the body of `while True` in _Bios.check_and_fill_platform_install_info:
\* out is "break", "TypeError" (open(None) on a target without device) or "end"
\* (the pass ran to the end of the body, where bOk = True)
Bios_check_body(lp, fs, d, devc) ==
    LET bootBuf == fs.bootImg.data
        coreBuf == fs.coreImg.data
        tmpBuf == ReadAt(devc, 0, DISK_SECTOR_SIZE)
        s1 == BOOT_MACHINE_BPB_START
        e1 == BOOT_MACHINE_BPB_END
        s2 == BOOT_MACHINE_DRIVE_CHECK
        e2 == BOOT_MACHINE_DRIVE_CHECK + 2
        s3 == BOOT_MACHINE_WINDOWS_NT_MAGIC
        e3 == BOOT_MACHINE_PART_END
        bAllowFloppy == IF Slice(tmpBuf, s2, e2) = <<NOP, NOP>> THEN "False" ELSE "True"
        brk(af) == [out |-> "break", loop |-> [lp EXCEPT !.bAllowFloppy = af]]
    IN IF ~fs.bootImg.ex THEN brk(lp.bAllowFloppy)
       ELSE IF Len(bootBuf) # DISK_SECTOR_SIZE THEN brk(lp.bAllowFloppy)
       ELSE IF ~fs.coreImg.ex THEN brk(lp.bAllowFloppy)
       ELSE IF ~(DISK_SECTOR_SIZE <= Len(coreBuf) /\ Len(coreBuf) <= Bios_getMbrGapSizeThreshold)
            THEN brk(lp.bAllowFloppy)
       ELSE IF ~d.has THEN [out |-> "TypeError", loop |-> lp]
       ELSE IF Slice(tmpBuf, 0, s1) # Slice(bootBuf, 0, s1) THEN brk(lp.bAllowFloppy)
       ELSE IF Slice(tmpBuf, e1, s2) # Slice(bootBuf, e1, s2) THEN brk(lp.bAllowFloppy)
       ELSE IF Slice(tmpBuf, s2, e2) # <<NOP, NOP>> /\ Slice(tmpBuf, s2, e2) # Slice(bootBuf, s2, e2)
            THEN brk(lp.bAllowFloppy)
       ELSE IF Slice(tmpBuf, e2, s3) # Slice(bootBuf, e2, s3) THEN brk(bAllowFloppy)
       ELSE IF SliceFrom(tmpBuf, e3) # SliceFrom(bootBuf, e3) THEN brk(bAllowFloppy)
       ELSE IF coreBuf # ReadAt(devc, DISK_SECTOR_SIZE, Len(coreBuf)) THEN brk(bAllowFloppy)
       ELSE [out |-> "end", loop |-> [bOk |-> TRUE, bAllowFloppy |-> bAllowFloppy]]

\* the statements of _Bios.check_and_fill_platform_install_info that follow its loop
Bios_check_fill(info, lp) ==
    IF lp.bOk
    THEN [info EXCEPT !.mbr_installed = "True", !.allow_floppy = lp.bAllowFloppy, !.rs_codes = "False"]
    ELSE [info EXCEPT !.status = EXIST]

\* _Bios.check_and_fill_platform_install_info, one pass of its loop at a time:
\* pc is "loop" (the next pass is due), "returned" or "raised"
Bios_check_and_fill_platform_install_info(info, lp, fs, d, devc) ==
    LET b == Bios_check_body(lp, fs, d, devc)
    IN IF b.out = "break" THEN [pc |-> "returned", res |-> "ok", loop |-> NoLoop, info |-> Bios_check_fill(info, b.loop)]
       ELSE IF b.out = "end" THEN [pc |-> "loop", res |-> "-", loop |-> b.loop, info |-> info]
       ELSE [pc |-> "raised", res |-> b.out, loop |-> NoLoop, info |-> info]

\* _Bios._isValidDisk: "True", "False" or the exception it raises
Bios_isValidDisk(d) ==
    IF ~(Len(d.path) > 0 /\ d.path[Len(d.path)] \in Digits) THEN "False"
    ELSE IF d.ptype # "msdos" THEN "False"
    ELSE IF Len(d.primaries) > 0 THEN "False"
    ELSE IF Len(d.primaries) = 0 THEN "IndexError"
    ELSE IF d.primaries[1] * DISK_SECTOR_SIZE < Bios_getMbrGapSizeThreshold THEN "False"
    ELSE "True"

\* _Bios.install_platform up to the point where the device is opened for writing:
\* the two asserts, the copy of boot.img, the size checks
Bios_install_checks(src, fs, d, bInstallMbr, bFloppyOrHdd, bAllowFloppy, bAddRsCodes) ==
    LET valid == Bios_isValidDisk(d)
        fs1 == [fs EXCEPT !.bootImg = File(src.bootImg)]
        bootBuf == fs1.bootImg.data
        coreBuf == fs1.coreImg.data
    IN IF valid = "IndexError" THEN Raised("IndexError", fs)
       ELSE IF valid # "True" THEN Raised("AssertionError", fs)
       ELSE IF ~(~bFloppyOrHdd /\ ~bAllowFloppy /\ ~bAddRsCodes) THEN Raised("AssertionError", fs)
       ELSE IF ~bInstallMbr THEN Done(fs1)
       ELSE IF Len(bootBuf) # DISK_SECTOR_SIZE THEN Raised("Exception", fs1)
       ELSE IF ~fs1.coreImg.ex THEN Raised("FileNotFoundError", fs1)
       ELSE IF Len(coreBuf) < DISK_SECTOR_SIZE THEN Raised("Exception", fs1)
       ELSE IF Len(coreBuf) > Bios_getMbrGapSizeThreshold THEN Raised("Exception", fs1)
       ELSE Done(fs1)

\* _Bios.install_platform: the boot sector it builds from boot.img and the device's first sector
Bios_patched_sector(bootBuf, devc, bFloppyOrHdd, bAllowFloppy) ==
    LET tmpBuf == ReadAt(devc, 0, DISK_SECTOR_SIZE)
        b1 == SpliceSlice(bootBuf, BOOT_MACHINE_BPB_START, BOOT_MACHINE_BPB_END, tmpBuf)
        b2 == IF ~bAllowFloppy /\ ~bFloppyOrHdd
              THEN SetByte(SetByte(b1, BOOT_MACHINE_DRIVE_CHECK, NOP), BOOT_MACHINE_DRIVE_CHECK + 1, NOP)
              ELSE b1
    IN IF ~bAllowFloppy /\ ~bFloppyOrHdd
       THEN SpliceSlice(b2, BOOT_MACHINE_WINDOWS_NT_MAGIC, BOOT_MACHINE_PART_END, tmpBuf)
       ELSE b2

\* a variant of _Bios.install_platform that writes boot.img and core.img to the device
\* before it validates anything
Bios_install_platform_write_first(info, src, fs, d, devc, bInstallMbr, bFloppyOrHdd, bAllowFloppy, bAddRsCodes) ==
    LET c == Bios_install_checks(src, fs, d, bInstallMbr, bFloppyOrHdd, bAllowFloppy, bAddRsCodes)
        written == IF bInstallMbr THEN WriteAt0(devc, src.bootImg \o fs.coreImg.data) ELSE devc
    IN IF c.res # "ok" THEN [res |-> c.res, fs |-> c.fs, dev |-> written, info |-> info]
       ELSE [res |-> "ok", fs |-> c.fs, dev |-> written,
             info |-> [info EXCEPT !.mbr_installed = PyBool(bInstallMbr), !.allow_floppy = PyBool(bAllowFloppy),
                                   !.rs_codes = PyBool(bAddRsCodes)]]

\* _Bios.install_platform
Bios_install_platform(info, src, fs, d, devc, bInstallMbr, bFloppyOrHdd, bAllowFloppy, bAddRsCodes) ==
    LET c == Bios_install_checks(src, fs, d, bInstallMbr, bFloppyOrHdd, bAllowFloppy, bAddRsCodes)
        bootBuf == Bios_patched_sector(c.fs.bootImg.data, devc, bFloppyOrHdd, bAllowFloppy)
    IN IF c.res # "ok" THEN [res |-> c.res, fs |-> c.fs, dev |-> devc, info |-> info]
       ELSE IF bInstallMbr /\ bAddRsCodes THEN [res |-> "AssertionError", fs |-> c.fs, dev |-> devc, info |-> info]
       ELSE [res |-> "ok", fs |-> c.fs,
             dev |-> IF bInstallMbr THEN WriteAt0(devc, bootBuf \o c.fs.coreImg.data) ELSE devc,
             info |-> [info EXCEPT !.mbr_installed = PyBool(bInstallMbr), !.allow_floppy = PyBool(bAllowFloppy),
                                   !.rs_codes = PyBool(bAddRsCodes)]]

\* _Bios.remove_platform
Bios_remove_platform(pt, d) == "ok"

(***************************************************************************)
(* class Target.  A method takes the Target's fields and what it works on  *)
(* as a record w = [targetType, mode, mnt, devInfo, fs, dev, platforms]    *)
(* and returns [res, fs, dev, platforms]; res is "ok" or the exception.    *)
(***************************************************************************)
MOUNTED_HDD_DEV == "MOUNTED_HDD_DEV"
ISO_DIR == "ISO_DIR"

Return(res, w) == [res |-> res, fs |-> w.fs, dev |-> w.dev, platforms |-> w.platforms]

\* Target.get_platform_install_info
Target_get_platform_install_info(d, pt) ==
    IF pt \in Keys(d) THEN Get(d, pt) ELSE PlatformInstallInfo(NOT_EXIST)

\* a variant of get_platform_install_info that keeps the record it makes in the map
Target_get_platform_install_info_setdefault(w, pt) ==
    [res |-> "ok", fs |-> w.fs, dev |-> w.dev,
     platforms |-> IF pt \in Keys(w.platforms) THEN w.platforms
                   ELSE Put(w.platforms, pt, PlatformInstallInfo(NOT_EXIST)),
     ret |-> Target_get_platform_install_info(w.platforms, pt)]

\* a call of Target.get_platform_install_info: ret is the record it returns
Target_get_platform_install_info_call(w, pt) ==
    [res |-> "ok", fs |-> w.fs, dev |-> w.dev, platforms |-> w.platforms,
     ret |-> Target_get_platform_install_info(w.platforms, pt)]

\* kwargs.get(name, default) for a keyword argument that is "unset", "True" or "False"
KwGet(v, default) == IF v = "unset" THEN default ELSE v = "True"

\* a variant of Target.install_platform that records the BOOTABLE entry before it delegates
Target_install_platform_record_first(w, pt, src, allow_floppy, rs_codes) ==
    LET ret == PlatformInstallInfo(BOOTABLE)
        c == Common_install_platform(w.fs, w.bootDir, w.mnt, pt, src)
        e == Efi_install_platform(pt, ret, src, c.fs)
        recorded == Put(w.platforms, pt, ret)
    IN IF w.mode \notin {"RW", "W"}
       THEN [res |-> "AssertionError", fs |-> w.fs, dev |-> w.dev, platforms |-> w.platforms,
             modules |-> NoModules, loadcfg |-> NoLoadCfg]
       ELSE IF Target_get_platform_install_info(w.platforms, pt).status = BOOTABLE
       THEN [res |-> "AssertionError", fs |-> w.fs, dev |-> w.dev, platforms |-> w.platforms,
             modules |-> NoModules, loadcfg |-> NoLoadCfg]
       ELSE IF c.res # "ok"
       THEN [res |-> c.res, fs |-> c.fs, dev |-> w.dev, platforms |-> recorded, modules |-> c.modules, loadcfg |-> c.loadcfg]
       ELSE IF isPlatformEfi(pt)
       THEN [res |-> e.res, fs |-> e.fs, dev |-> w.dev,
             platforms |-> IF e.res = "ok" THEN Put(w.platforms, pt, e.info) ELSE recorded,
             modules |-> c.modules, loadcfg |-> c.loadcfg]
       ELSE [res |-> "AssertionError", fs |-> c.fs, dev |-> w.dev, platforms |-> recorded,
             modules |-> c.modules, loadcfg |-> c.loadcfg]

\* Target.install_platform; modules is what _Common.install_platform gave the image-maker,
\* loadcfg what it wrote to load.cfg
Target_install_platform(w, pt, src, allow_floppy, rs_codes) ==
    LET ret == PlatformInstallInfo(BOOTABLE)
        c == Common_install_platform(w.fs, w.bootDir, w.mnt, pt, src)
        w1 == [w EXCEPT !.fs = c.fs]
        b == Bios_install_platform(ret, src, c.fs, w.devInfo, w.dev,
                                   w.targetType = MOUNTED_HDD_DEV,      \* bInstallMbr
                                   FALSE,                               \* bFloppyOrHdd
                                   KwGet(allow_floppy, FALSE), KwGet(rs_codes, TRUE))
        e == Efi_install_platform(pt, ret, src, c.fs)
        With(r, cm) == [res |-> r.res, fs |-> r.fs, dev |-> r.dev, platforms |-> r.platforms,
                        modules |-> cm.modules, loadcfg |-> cm.loadcfg]
        none == [modules |-> NoModules, loadcfg |-> NoLoadCfg]
    IN IF w.mode \notin {"RW", "W"} THEN With(Return("AssertionError", w), none)
       ELSE IF Target_get_platform_install_info(w.platforms, pt).status = BOOTABLE
            THEN With(Return("AssertionError", w), none)
       ELSE IF c.res # "ok" THEN With(Return(c.res, w1), c)
       ELSE IF pt = I386_PC
            THEN IF ~w.devInfo.has THEN With(Return("AttributeError", w1), c)
                 ELSE [res |-> b.res, fs |-> b.fs, dev |-> b.dev,
                       platforms |-> IF b.res = "ok" THEN Put(w.platforms, pt, b.info) ELSE w.platforms,
                       modules |-> c.modules, loadcfg |-> c.loadcfg]
       ELSE IF isPlatformEfi(pt)
            THEN [res |-> e.res, fs |-> e.fs, dev |-> w.dev,
                  platforms |-> IF e.res = "ok" THEN Put(w.platforms, pt, e.info) ELSE w.platforms,
                  modules |-> c.modules, loadcfg |-> c.loadcfg]
       ELSE With(Return("AssertionError", w1), c)

\* Target.remove_platform
Target_remove_platform(w, pt) ==
    LET e == Efi_remove_platform(pt, w.fs)
        del(d) == IF pt \in Keys(d) THEN Del(d, pt) ELSE d
    IN IF w.mode \notin {"RW", "W"} THEN Return("AssertionError", w)
       ELSE IF w.targetType = MOUNTED_HDD_DEV
            THEN IF pt = I386_PC
                 THEN [res |-> "ok", fs |-> Common_remove_platform(w.fs, pt), dev |-> w.dev,
                       platforms |-> del(w.platforms)]
                 ELSE IF isPlatformEfi(pt)
                 THEN IF e.res # "ok" THEN Return(e.res, [w EXCEPT !.fs = e.fs])
                      ELSE [res |-> "ok", fs |-> Common_remove_platform(e.fs, pt), dev |-> w.dev,
                            platforms |-> del(w.platforms)]
                 ELSE Return("AssertionError", w)
       ELSE [res |-> "ok", fs |-> Common_remove_platform(w.fs, pt), dev |-> w.dev,
             platforms |-> del(w.platforms)]

\* Target.remove_all: the loop over list(self._platforms.keys()); at[i] is the outcome
\* after i keys, and the loop ends at the first remove_platform that raises
Target_remove_all_loop(w, keys) ==
    LET at[i \in 0..Len(keys)] ==
            IF i = 0 THEN Return("ok", w)
            ELSE IF at[i - 1].res # "ok" THEN at[i - 1]
            ELSE Target_remove_platform([w EXCEPT !.fs = at[i - 1].fs, !.dev = at[i - 1].dev,
                                                  !.platforms = at[i - 1].platforms], keys[i])
    IN at[Len(keys)]

\* Target.remove_all
Target_remove_all(w) ==
    LET r == Target_remove_all_loop(w, [i \in 1..Len(w.platforms) |-> w.platforms[i].k])
    IN IF w.mode \notin {"RW", "W"} THEN Return("AssertionError", w)
       ELSE IF r.res # "ok" THEN r
       ELSE [r EXCEPT !.fs = Common_remove_remaining_crufts(Efi_remove_remaining_crufts(r.fs))]

\* Target.install_data: each of locales, fonts, themes is None or given
RECURSIVE copy_data(_, _)
copy_data(fs, names) ==
    IF names = {} THEN fs
    ELSE LET n == CHOOSE x \in names : TRUE IN copy_data(copyDataFiles(fs, n), names \ {n})

\* a variant of Target.install_data without the assertion on the access mode
Target_install_data_any_mode(w, given) ==
    Return("ok", [w EXCEPT !.fs = copy_data(force_mkdir(w.fs, PathGrub), given)])

Target_install_data(w, given) ==
    IF w.mode \notin {"RW", "W"} THEN Return("AssertionError", w)
    ELSE Return("ok", [w EXCEPT !.fs = copy_data(force_mkdir(w.fs, PathGrub), given)])

\* Target.remove_data
Target_remove_data(w) ==
    IF w.mode \notin {"RW", "W"} THEN Return("AssertionError", w)
    ELSE Return("ok", [w EXCEPT !.fs = force_rm(force_rm(force_rm(w.fs, <<"grub", "locale">>),
                                                          <<"grub", "fonts">>), <<"grub", "themes">>)])

\* Target.touch_env_file
Target_touch_env_file(w) ==
    LET r == createEnvBlkFile(w.fs)
    IN IF w.mode \notin {"RW", "W"} THEN Return("AssertionError", w)
       ELSE IF exists(w.fs, <<"grub", "grubenv">>) THEN Return("ok", w)
       ELSE Return(r.res, [w EXCEPT !.fs = r.fs])

\* Target.remove_env_file
Target_remove_env_file(w) ==
    IF w.mode \notin {"RW", "W"} THEN Return("AssertionError", w)
    ELSE Return("ok", [w EXCEPT !.fs = force_rm(w.fs, <<"grub", "grubenv">>)])

\* Target.check
Target_check(w) ==
    IF w.mode \notin {"R", "RW"} THEN Return("AssertionError", w)
    ELSE Return(Common_check(w.fs, w.platforms), w)

\* _Common.check_with_source
Common_check_with_source(fs, d, src) == "ok"

\* Target.check_with_source
Target_check_with_source(w, src) ==
    IF w.mode \notin {"R", "RW"} THEN Return("AssertionError", w)
    ELSE Return(Common_check_with_source(w.fs, w.platforms, src), w)

(***************************************************************************)
(* State.                                                                  *)
(***************************************************************************)
VARIABLES
    targetType,     \* Target._targetType
    mode,           \* Target._mode: "R", "W" or "RW"
    bootDir,        \* Target._bootDir
    devInfo,        \* Target._dev: the block device's path and partition table
    dev,            \* the bytes of the block device
    fs,             \* the boot directory
    tstate,         \* "new", "scanning" (inside __init__), "ready", "failed" (__init__ raised)
    platforms,      \* Target._platforms
    scan,           \* __init__: index of the entry its verification loop is at
    loop,           \* locals of the running _Bios.check_and_fill_platform_install_info
    verif,          \* a direct call of check_and_fill_platform_install_info: state, platform, record
    last            \* the last method called on the Target, its arguments and how it ended

vars == <<targetType, mode, bootDir, devInfo, dev, fs, tstate, platforms, scan, loop, verif, last>>

\* m is what Grub.probeMnt(_bootDir) returns during the call
WorldAt(m) == [targetType |-> targetType, mode |-> mode, bootDir |-> bootDir, mnt |-> m, devInfo |-> devInfo,
               fs |-> fs, dev |-> dev, platforms |-> platforms]
World == WorldAt(NotProbed)

NoVerif == [state |-> "none", p |-> "-", info |-> PlatformInstallInfo(NOT_EXIST)]
\* the call returned no record
NoReturn == [status |-> "-"]
NoCall == [op |-> "none", p |-> "-", res |-> "-", src |-> Source(<<>>, <<>>),
           allow_floppy |-> "-", rs_codes |-> "-", mnt |-> NotProbed, modules |-> NoModules,
           loadcfg |-> NoLoadCfg,
           ret |-> NoReturn]
Call(op, p, res) == [NoCall EXCEPT !.op = op, !.p = p, !.res = res]

(***************************************************************************)
(* Boot directories and devices a Target can be constructed over.          *)
(***************************************************************************)
\* <boot>/EFI: absent, without BOOT, or with BOOT and the given standard-named files
EfiAbsent == [efi |-> FALSE, efiBoot |-> FALSE, efiFiles |-> EmptyBoot.efiFiles, efiOther |-> FALSE]
EfiTrees(contents) ==
    {EfiAbsent}
    \cup {[efi |-> TRUE, efiBoot |-> FALSE, efiFiles |-> EmptyBoot.efiFiles, efiOther |-> o] : o \in BOOLEAN}
    \cup {[efi |-> TRUE, efiBoot |-> TRUE, efiFiles |-> f, efiOther |-> o] :
            f \in [EfiFilenames -> contents], o \in BOOLEAN}

\* the boot directory with platform directories D, each holding the core image `core`
\* (and a load.cfg when it holds one), the BIOS files boot and cimg, and the EFI tree e
BootDir(D, core, boot, cimg, e, emptyGrub) ==
    [EmptyBoot EXCEPT !.grub = (D # {} \/ boot.ex \/ cimg.ex \/ emptyGrub),
                      !.plat = [pt \in PlatformType |-> IF pt \in D THEN PlatDir(core, core.ex) ELSE NoPlatDir],
                      !.bootImg = boot, !.coreImg = cimg,
                      !.efi = e.efi, !.efiBoot = e.efiBoot, !.efiFiles = e.efiFiles, !.efiOther = e.efiOther]

InitTarget ==
    /\ tstate = "new"
    /\ platforms = <<>>
    /\ scan = 0
    /\ loop = NoLoop
    /\ verif = NoVerif
    /\ last = NoCall

\* the life of a Target over a boot directory without BIOS files and a blank whole disk
Init ==
    /\ targetType \in {MOUNTED_HDD_DEV, ISO_DIR}
    /\ mode \in {"R", "W", "RW"}
    /\ bootDir = PathBoot
    /\ devInfo = IF targetType = MOUNTED_HDD_DEV THEN DevSda ELSE NoDevice
    /\ dev = IF targetType = MOUNTED_HDD_DEV THEN DevBlank ELSE <<>>
    /\ fs \in {BootDir(D, core, NoFile, NoFile, e, g) :
                  D \in {S \in SUBSET LifecyclePlatforms : Cardinality(S) <= MaxInitPlats},
                  core \in {NoFile, File(CoreA)},
                  e \in EfiTrees({NoFile, File(CoreA), File(CoreB)}),
                  g \in BOOLEAN}
    /\ InitTarget

(***************************************************************************)
(* Target.__init__                                                         *)
(***************************************************************************)
\* Target.__init__ up to its verification loop
Construct ==
    /\ tstate = "new"
    /\ \E order \in (IF mode \in {"R", "RW"}
                     THEN Orders({pt \in PlatformType : isdir(fs, <<"grub", pt>>)})
                     ELSE {<<>>}) :
          /\ platforms' = IF mode \in {"R", "RW"} THEN Common_init_platforms(fs, order) ELSE <<>>
          /\ tstate' = IF mode \in {"R", "RW"} THEN "scanning" ELSE "ready"
          /\ scan' = IF mode \in {"R", "RW"} THEN 1 ELSE 0
    /\ UNCHANGED <<targetType, mode, bootDir, devInfo, dev, fs, loop, verif, last>>

\* one step of `for k, v in self._platforms.items()` in Target.__init__: the check of
\* one entry, or one pass of the loop of the BIOS check
Target_init_step(w, i, lp) ==
    LET k == w.platforms[i].k
        v == w.platforms[i].v
        b == Bios_check_and_fill_platform_install_info(v, lp, w.fs, w.devInfo, w.dev)
        e == Efi_check_and_fill_platform_install_info(k, v, w.fs)
        next(info) == [tstate |-> "scanning", scan |-> i + 1, loop |-> NoLoop,
                       platforms |-> [w.platforms EXCEPT ![i].v = info]]
        failed == [tstate |-> "failed", scan |-> i, loop |-> NoLoop, platforms |-> w.platforms]
    IN IF i > Len(w.platforms)
       THEN [tstate |-> "ready", scan |-> 0, loop |-> NoLoop, platforms |-> w.platforms]
       ELSE IF k = I386_PC
       THEN IF b.pc = "returned" THEN next(b.info)
            ELSE IF b.pc = "raised" THEN failed
            ELSE [tstate |-> "scanning", scan |-> i, loop |-> b.loop, platforms |-> w.platforms]
       ELSE IF isPlatformEfi(k)
       THEN IF e.res = "ok" THEN next(e.info) ELSE failed
       ELSE failed

ScanStep ==
    /\ tstate = "scanning"
    /\ \E r \in {Target_init_step(World, scan, loop)} :
          /\ tstate' = r.tstate
          /\ scan' = r.scan
          /\ loop' = r.loop
          /\ platforms' = r.platforms
    /\ UNCHANGED <<targetType, mode, bootDir, devInfo, dev, fs, verif, last>>

(***************************************************************************)
(* Calls on a constructed Target.  A call is made when no call is running. *)
(***************************************************************************)
Idle == tstate = "ready" /\ verif.state # "running"

Apply(r, call) ==
    /\ fs' = r.fs
    /\ dev' = r.dev
    /\ platforms' = r.platforms
    /\ last' = call
    /\ verif' = NoVerif
    /\ UNCHANGED <<targetType, mode, bootDir, devInfo, tstate, scan, loop>>

\* the keyword arguments allow_floppy and rs_codes of install_platform
DefaultKwargs == {<<"unset", "unset">>}
AllKwargs == {"True", "False", "unset"} \X {"True", "False", "unset"}

\* M: what Grub.probeMnt can return for the boot directory
InstallPlatformAt(P, S, K, M) ==
    /\ Idle
    /\ \E pt \in P, src \in S, m \in M :
          \E kw \in (IF pt = I386_PC THEN K ELSE DefaultKwargs) :
             \E r \in {Target_install_platform(WorldAt(m), pt, src, kw[1], kw[2])} :
                Apply(r, [Call("install_platform", pt, r.res) EXCEPT
                             !.src = src, !.allow_floppy = kw[1], !.rs_codes = kw[2], !.mnt = m,
                             !.modules = r.modules, !.loadcfg = r.loadcfg])

InstallPlatform(P, S, K) == InstallPlatformAt(P, S, K, Mounts)

RemovePlatform ==
    /\ Idle
    /\ \E pt \in LifecyclePlatforms :
          \E r \in {Target_remove_platform(World, pt)} :
             Apply(r, Call("remove_platform", pt, r.res))

RemoveAll ==
    /\ Idle
    /\ \E r \in {Target_remove_all(World)} :
          Apply(r, Call("remove_all", "-", r.res))

InstallData ==
    /\ Idle
    /\ \E given \in {{}, DataNames} :
          \E r \in {Target_install_data(World, given)} :
             Apply(r, Call("install_data", "-", r.res))

RemoveData ==
    /\ Idle
    /\ \E r \in {Target_remove_data(World)} :
          Apply(r, Call("remove_data", "-", r.res))

TouchEnvFile ==
    /\ Idle
    /\ \E r \in {Target_touch_env_file(World)} :
          Apply(r, Call("touch_env_file", "-", r.res))

RemoveEnvFile ==
    /\ Idle
    /\ \E r \in {Target_remove_env_file(World)} :
          Apply(r, Call("remove_env_file", "-", r.res))

Check ==
    /\ Idle
    /\ \E r \in {Target_check(World)} :
          Apply(r, Call("check", "-", r.res))

CheckWithSource ==
    /\ Idle
    /\ \E src \in Sources :
          \E r \in {Target_check_with_source(World, src)} :
             Apply(r, [Call("check_with_source", "-", r.res) EXCEPT !.src = src])

GetPlatformInstallInfo ==
    /\ Idle
    /\ \E pt \in LifecyclePlatforms :
          \E r \in {Target_get_platform_install_info_call(World, pt)} :
             Apply(r, [Call("get_platform_install_info", pt, r.res) EXCEPT !.ret = r.ret])

\* check_and_fill_platform_install_info called on a fresh BOOTABLE record right after a
\* successful install_platform of the same platform; for the BIOS platform one pass of
\* its loop at a time
Reverify_step(w, pt, v, lp) ==
    LET b == Bios_check_and_fill_platform_install_info(v, lp, w.fs, w.devInfo, w.dev)
        e == Efi_check_and_fill_platform_install_info(pt, v, w.fs)
    IN IF pt = I386_PC
       THEN [verif |-> [state |-> IF b.pc = "loop" THEN "running" ELSE b.pc, p |-> pt, info |-> b.info],
             loop |-> b.loop]
       ELSE [verif |-> [state |-> IF e.res = "ok" THEN "returned" ELSE "raised", p |-> pt, info |-> e.info],
             loop |-> NoLoop]

Reverify ==
    /\ tstate = "ready"
    /\ last.op = "install_platform" /\ last.res = "ok"
    /\ verif.state \in {"none", "running"}
    /\ \E r \in {Reverify_step(World, last.p,
                              IF verif.state = "none" THEN PlatformInstallInfo(BOOTABLE) ELSE verif.info, loop)} :
          /\ verif' = r.verif
          /\ loop' = r.loop
    /\ UNCHANGED <<targetType, mode, bootDir, devInfo, dev, fs, tstate, platforms, scan, last>>

Next ==
    \/ Construct
    \/ ScanStep
    \/ InstallPlatform(LifecyclePlatforms, Sources, DefaultKwargs)
    \/ RemovePlatform
    \/ RemoveAll
    \/ InstallData
    \/ RemoveData
    \/ TouchEnvFile
    \/ RemoveEnvFile
    \/ Check
    \/ CheckWithSource
    \/ GetPlatformInstallInfo
    \/ Reverify

Spec == Init /\ [][Next]_vars

(***************************************************************************)
(* Construction over boot directories and devices of every kind: the BIOS  *)
(* files with a device whose first sectors are an install of them with     *)
(* some drive check bytes and possibly one byte changed, or platform       *)
(* directories and an EFI tree with core images of several contents.       *)
(***************************************************************************)
\* the device with the byte at 1-based place i changed (i = 0: unchanged)
Corrupt(devc, i) == IF i = 0 THEN devc ELSE [devc EXCEPT ![i] = 1]

DriveCheckBytes == {<<NOP, NOP>>, Slice(BootImgGood, BOOT_MACHINE_DRIVE_CHECK, BOOT_MACHINE_DRIVE_CHECK + 2),
                    <<NOP, 2>>, <<116, NOP>>, <<0, 0>>}

ScanDevices ==
    {DevBlank} \cup {Corrupt(DevInstalled(BootImgGood, CoreA, dc), i) :
                        dc \in DriveCheckBytes, i \in 0..(2 * DISK_SECTOR_SIZE)}

ScanCores == {NoFile, File(CoreA), File(CoreB), File(CoreShort)}

ScanCases ==
    {[fs |-> BootDir({I386_PC}, NoFile, boot, cimg, EfiAbsent, FALSE), dev |-> d] :
        boot \in {NoFile, File(BootImgGood), File(BootImgShort)},
        cimg \in {NoFile, File(CoreA), File(CoreShort), File(CoreLong)},
        d \in ScanDevices}
    \cup
    {[fs |-> BootDir(D, core, NoFile, NoFile, e, FALSE), dev |-> DevBlank] :
        D \in {S \in SUBSET LifecyclePlatforms : Cardinality(S) <= MaxInitPlats},
        core \in ScanCores,
        e \in EfiTrees(ScanCores)}

InitScan ==
    /\ targetType \in {MOUNTED_HDD_DEV, ISO_DIR}
    /\ mode \in {"R", "W", "RW"}
    /\ bootDir = PathBoot
    /\ devInfo = IF targetType = MOUNTED_HDD_DEV THEN DevSda ELSE NoDevice
    /\ \E c \in ScanCases :
          /\ fs = c.fs
          /\ dev = IF targetType = MOUNTED_HDD_DEV THEN c.dev ELSE <<>>
    /\ InitTarget

NextScan ==
    \/ Construct
    \/ ScanStep

SpecScan == InitScan /\ [][NextScan]_vars

(***************************************************************************)
(* BIOS installs on a mounted-device target over devices of every kind,    *)
(* with boot.img and core.img of every size.                               *)
(***************************************************************************)
BiosSources == {Source(BootImgShort, CoreA), Source(BootImgGood, CoreA)}

InitBios ==
    /\ targetType = MOUNTED_HDD_DEV
    /\ mode \in {"W", "RW"}
    /\ bootDir = PathBoot
    /\ devInfo \in AllDevices
    /\ dev \in {DevBlank, DevInstalled(BootImgGood, CoreA, <<NOP, NOP>>)}
    /\ fs \in {BootDir(D, NoFile, NoFile, cimg, EfiAbsent, FALSE) :
                  D \in {{}, {I386_PC}},
                  cimg \in {NoFile, File(CoreA), File(CoreShort), File(CoreLong)}}
    /\ InitTarget

NextBios ==
    \/ Construct
    \/ ScanStep
    \/ InstallPlatform({I386_PC}, BiosSources, AllKwargs)

SpecBios == InitBios /\ [][NextBios]_vars

(***************************************************************************)
(* Installs of every platform type in turn, on a boot directory that       *)
(* starts without a grub directory.                                        *)
(***************************************************************************)
InitModules ==
    /\ targetType \in {MOUNTED_HDD_DEV, ISO_DIR}
    /\ mode = "W"
    /\ bootDir = PathBoot
    /\ devInfo = IF targetType = MOUNTED_HDD_DEV THEN DevSda ELSE NoDevice
    /\ dev = IF targetType = MOUNTED_HDD_DEV THEN DevBlank ELSE <<>>
    /\ fs = EmptyBoot
    /\ InitTarget

NextModules ==
    \/ Construct
    \/ InstallPlatform(PlatformType, Sources, DefaultKwargs)

SpecModules == InitModules /\ [][NextModules]_vars

(***************************************************************************)
(* Installs on Targets whose boot directory lies at different depths, for  *)
(* every mount point the boot directory can lie below.                     *)
(***************************************************************************)
\* what rootfs_dir (MOUNTED_HDD_DEV) or dir (ISO_DIR) is given as
TargetDirs == {Root, <<"/", "m">>, <<"/", "m", "/", "m">>}

\* Target.__init__: _bootDir
Target_bootDir(dir) == os_path_join(dir, <<"b", "o", "o", "t">>)

ProbedMounts(path) ==
    {MountAt(uuid, f, mp) : uuid \in {"ABCD-1234", "None"}, f \in {"vfat", "ext4"}, mp \in Ancestors(path)}

InitLoadCfg ==
    /\ targetType \in {MOUNTED_HDD_DEV, ISO_DIR}
    /\ mode = "W"
    /\ bootDir \in {Target_bootDir(d) : d \in TargetDirs}
    /\ devInfo = IF targetType = MOUNTED_HDD_DEV THEN DevSda ELSE NoDevice
    /\ dev = IF targetType = MOUNTED_HDD_DEV THEN DevBlank ELSE <<>>
    /\ fs = EmptyBoot
    /\ InitTarget

NextLoadCfg ==
    \/ Construct
    \/ InstallPlatformAt({X86_64_EFI, I386_MULTIBOOT}, Sources, DefaultKwargs, ProbedMounts(bootDir))

SpecLoadCfg == InitLoadCfg /\ [][NextLoadCfg]_vars

(***************************************************************************)
(* Properties.                                                             *)
(***************************************************************************)
WriteCapable == mode \in {"W", "RW"}
StatusOf(d, pt) == Target_get_platform_install_info(d, pt).status

\* a device suitable for a BIOS install: a whole disk with an MBR partition table and
\* no primary partition, or the MBR gap before the first one
Suitable(d) ==
    /\ d.has
    /\ ~d.isPartition
    /\ d.ptype = "msdos"
    /\ (Len(d.primaries) = 0 \/ d.primaries[1] * DISK_SECTOR_SIZE >= Bios_getMbrGapSizeThreshold)

\* core.img has a size a BIOS install accepts
CoreSizeOk(f) == f.ex /\ DISK_SECTOR_SIZE <= Len(f.data) /\ Len(f.data) <= Bios_getMbrGapSizeThreshold

\* C1: on a mounted-device target in a write-capable mode over a suitable whole disk,
\* install_platform(I386_PC, source) with default rs_codes and any allow_floppy completes,
\* and a re-verification that follows yields BOOTABLE with mbr_installed = true,
\* allow_floppy as requested and rs_codes = false.
C1_BiosRoundTrip ==
    (/\ last.op = "install_platform" /\ last.p = I386_PC
     /\ targetType = MOUNTED_HDD_DEV /\ WriteCapable /\ Suitable(devInfo)
     /\ last.rs_codes = "unset"
     /\ last.mnt.fs_uuid # "None"
     /\ Len(last.src.bootImg) = DISK_SECTOR_SIZE /\ CoreSizeOk(fs.coreImg))
    => /\ last.res = "ok"
       /\ verif.state # "none" =>
            /\ verif.state = "returned"
            /\ verif.info.status = BOOTABLE
            /\ verif.info.mbr_installed = "True"
            /\ verif.info.allow_floppy = PyBool(KwGet(last.allow_floppy, FALSE))
            /\ verif.info.rs_codes = "False"

\* C2: for every EFI platform p, with the boot directory on vfat with a UUID,
\* install_platform(p, source) completes and leaves EFI/BOOT/<standard name> with the
\* bytes of the core image under grub/<p>, and a re-verification that follows returns
\* BOOTABLE with removable = true and nvram = false.
C2_Step ==
    /\ (/\ last'.op = "install_platform" /\ isPlatformEfi(last'.p)
        /\ WriteCapable /\ StatusOf(platforms, last'.p) # BOOTABLE
        /\ last'.mnt = Mount("ABCD-1234", "vfat"))
       => /\ last'.res = "ok"
          /\ fs'.plat[last'.p].core.ex
          /\ fs'.efiFiles[getStandardEfiFilename(last'.p)] = fs'.plat[last'.p].core
          /\ StatusOf(platforms', last'.p) = BOOTABLE
    /\ (/\ last'.op = "install_platform" /\ isPlatformEfi(last'.p) /\ last'.res = "ok"
        /\ verif'.state # "none")
       => /\ verif'.state = "returned"
          /\ verif'.p = last'.p
          /\ verif'.info.status = BOOTABLE
          /\ verif'.info.removable = "True"
          /\ verif'.info.nvram = "False"

C2_EfiRoundTrip == [][C2_Step]_vars

\* an EFI install over an EFI tree that held other content has been re-verified
C2_Witness ==
    /\ last.op = "install_platform" /\ isPlatformEfi(last.p) /\ last.res = "ok"
    /\ verif.state = "returned" /\ verif.info.status = BOOTABLE
    /\ fs.efiFiles[getStandardEfiFilename(last.p)] = File(CoreA)

\* C3: on a read-write target, after any sequence of calls, a platform has an entry in
\* the map iff its directory grub/<platform> exists.
C3_MapIffDirectory ==
    (tstate = "ready" /\ mode = "RW")
    => \A pt \in PlatformType : pt \in Keys(platforms) <=> isdir(fs, <<"grub", pt>>)

\* C4: remove_platform(p) in a write-capable mode on a target without record for p
\* returns normally and leaves the map unchanged.
C4_Step ==
    (last'.op = "remove_platform" /\ WriteCapable /\ last'.p \notin Keys(platforms))
    => (last'.res = "ok" /\ platforms' = platforms)

C4_RemoveAbsentIsNoop == [][C4_Step]_vars

\* C5: remove_all in a write-capable mode completes; afterwards the map is empty and
\* neither EFI nor grub exists.
C5_RemoveAll ==
    (last.op = "remove_all" /\ WriteCapable)
    => /\ last.res = "ok"
       /\ Len(platforms) = 0
       /\ ~isdir(fs, PathEfi)
       /\ ~isdir(fs, PathGrub)

\* C6: constructing a Target in read or read-write mode completes without raising, and
\* the keys of its map are the platform types whose directory exists under grub, each
\* with status BOOTABLE or EXIST.
C6_Construction ==
    /\ tstate # "failed"
    /\ ~(tstate = "scanning" /\ loop.bOk)
    /\ (tstate = "ready" /\ mode \in {"R", "RW"})
       => /\ Keys(platforms) = {pt \in PlatformType : isdir(fs, <<"grub", pt>>)}
          /\ \A i \in 1..Len(platforms) : platforms[i].v.status \in {BOOTABLE, EXIST}

\* the BIOS entry of the map, and how far its check at construction is
BiosEntry == IndexOfKey(platforms, I386_PC)
BiosCheckBegun ==
    /\ I386_PC \in Keys(platforms)
    /\ tstate = "ready" \/ (tstate = "scanning" /\ (scan > BiosEntry \/ (scan = BiosEntry /\ loop.bOk)))
BiosCheckReturned ==
    /\ I386_PC \in Keys(platforms)
    /\ tstate = "ready" \/ (tstate = "scanning" /\ scan > BiosEntry)

\* every check of the BIOS verification other than the drive check passes
BiosOthersMatch ==
    /\ fs.bootImg.ex /\ Len(fs.bootImg.data) = DISK_SECTOR_SIZE
    /\ CoreSizeOk(fs.coreImg)
    /\ devInfo.has
    /\ Len(dev) >= DISK_SECTOR_SIZE + Len(fs.coreImg.data)
    /\ \A i \in 0..(DISK_SECTOR_SIZE - 1) :
          \/ (BOOT_MACHINE_BPB_START <= i /\ i < BOOT_MACHINE_BPB_END)
          \/ (BOOT_MACHINE_DRIVE_CHECK <= i /\ i < BOOT_MACHINE_DRIVE_CHECK + 2)
          \/ (BOOT_MACHINE_WINDOWS_NT_MAGIC <= i /\ i < BOOT_MACHINE_PART_END)
          \/ dev[i + 1] = fs.bootImg.data[i + 1]
    /\ \A i \in 1..Len(fs.coreImg.data) : dev[DISK_SECTOR_SIZE + i] = fs.coreImg.data[i]

DriveCheckOf(buf) == <<buf[BOOT_MACHINE_DRIVE_CHECK + 1], buf[BOOT_MACHINE_DRIVE_CHECK + 2]>>

\* C7: in BIOS verification, every other check passing, drive check bytes 0x90 0x90 give
\* BOOTABLE with allow_floppy = false, the bytes of boot.img give BOOTABLE with
\* allow_floppy = true, any other bytes give EXIST.
C7_DriveCheckDecides ==
    (BiosCheckBegun /\ BiosOthersMatch)
    => /\ BiosCheckReturned
       /\ LET v == Get(platforms, I386_PC)
          IN IF DriveCheckOf(dev) = <<NOP, NOP>>
             THEN v.status = BOOTABLE /\ v.allow_floppy = "False"
             ELSE IF DriveCheckOf(dev) = DriveCheckOf(fs.bootImg.data)
             THEN v.status = BOOTABLE /\ v.allow_floppy = "True"
             ELSE v.status = EXIST

\* the installed file of an EFI platform has the length and the bytes of its core image
EfiSame(pt) ==
    LET f == fs.efiFiles[getStandardEfiFilename(pt)]
        c == fs.plat[pt].core
    IN f.ex /\ c.ex /\ f.data = c.data

\* C8: _Efi.check_and_fill_platform_install_info leaves status BOOTABLE (removable = true,
\* nvram = false) exactly when EFI/BOOT/<standard name> exists with the length and the
\* bytes of the platform's core image; when the installed file is missing or differs
\* from the core image the status is EXIST.
C8_EfiCheck ==
    \A i \in 1..Len(platforms) :
       LET k == platforms[i].k
           v == platforms[i].v
       IN (/\ isPlatformEfi(k)
           /\ tstate = "ready" \/ (tstate = "scanning" /\ scan > i) \/ (tstate = "failed" /\ scan >= i))
          => /\ v.status = BOOTABLE <=> EfiSame(k)
             /\ EfiSame(k) => (v.removable = "True" /\ v.nvram = "False")
             /\ ~EfiSame(k) => v.status = EXIST

\* C9: _Bios._isValidDisk returns true exactly when the device is a whole disk with an
\* MBR partition table and no primary partition or an MBR gap of at least the threshold.
C9_ValidDisk ==
    (/\ last.op = "install_platform" /\ last.p = I386_PC
     /\ WriteCapable /\ last.mnt.fs_uuid # "None")
    => (Bios_isValidDisk(devInfo) = "True" <=> Suitable(devInfo))

\* C10: in _Bios.install_platform with MBR installation requested, when boot.img is not
\* one sector long or core.img is shorter than a sector or longer than the threshold,
\* the install fails and the device holds the bytes it held before the call.
C10_Step ==
    (/\ last'.op = "install_platform" /\ last'.p = I386_PC
     /\ targetType = MOUNTED_HDD_DEV
     /\ \/ Len(last'.src.bootImg) # DISK_SECTOR_SIZE
        \/ (fs.coreImg.ex /\ ~CoreSizeOk(fs.coreImg)))
    => (last'.res # "ok" /\ dev' = dev)

EntriesOf(d, pt) == Cardinality({i \in 1..Len(d) : d[i].k = pt})

\* C11: install_platform(p) while p's recorded status is BOOTABLE fails and changes
\* neither the map nor the disk; a successful install leaves exactly one entry for p,
\* with status BOOTABLE, every other entry being as before; a failed install leaves the
\* map as it was.
C11_Step ==
    (last'.op = "install_platform" /\ verif'.state = "none")
    => /\ StatusOf(platforms, last'.p) = BOOTABLE
          => (last'.res # "ok" /\ platforms' = platforms /\ fs' = fs /\ dev' = dev)
       /\ last'.res = "ok"
          => /\ EntriesOf(platforms', last'.p) = 1
             /\ StatusOf(platforms', last'.p) = BOOTABLE
             /\ Keys(platforms') = Keys(platforms) \cup {last'.p}
             /\ \A q \in Keys(platforms) \ {last'.p} : Get(platforms', q) = Get(platforms, q)
       /\ last'.res # "ok" => platforms' = platforms

C11_InstallAndTheMap == [][C11_Step]_vars

\* an install of a platform recorded BOOTABLE has failed on a read-write target whose
\* map holds a second platform
C11_Witness ==
    /\ last.op = "install_platform" /\ last.res = "AssertionError"
    /\ mode = "RW"
    /\ StatusOf(platforms, last.p) = BOOTABLE
    /\ Len(platforms) = 2

\* the operations that require a write-capable mode, and those that require a readable one
MutatingOps == {"install_platform", "remove_platform", "install_data", "remove_data",
                "touch_env_file", "remove_env_file", "remove_all"}
InspectingOps == {"check", "check_with_source"}

\* C12: on a read-mode target every mutating operation fails and changes neither the map,
\* the boot directory nor the device; on a write-mode target check and check_with_source
\* fail; nothing done with a read-mode target changes the boot directory or the device.
C12_Step ==
    /\ mode = "R" => (fs' = fs /\ dev' = dev)
    /\ (mode = "R" /\ tstate = "ready") => platforms' = platforms
    /\ (mode = "R" /\ last'.op \in MutatingOps) => last'.res = "AssertionError"
    /\ (mode = "W" /\ last'.op \in InspectingOps) => last'.res = "AssertionError"

C12_AccessModes == [][C12_Step]_vars

\* install_data has failed on a read-mode target whose grub directory holds a platform
C12_Witness ==
    /\ mode = "R" /\ tstate = "ready"
    /\ last.op = "install_data" /\ last.res = "AssertionError"
    /\ Len(platforms) > 0
    /\ \E pt \in PlatformType : isdir(fs, <<"grub", pt>>)

\* check_with_source has failed on a write-mode target
C12_WitnessWrite ==
    mode = "W" /\ last.op = "check_with_source" /\ last.res = "AssertionError"

\* the platforms the claim calls native-disk platforms
NativeDiskPlatforms == {I386_MULTIBOOT, I386_COREBOOT, I386_QEMU, MIPSEL_LOONGSON}

\* _Common.install_platform gets as far as the image-maker: the mount has a UUID, and is
\* vfat for an EFI platform
ReachesImageMaker(pt, m) == m.fs_uuid # "None" /\ (isPlatformEfi(pt) => m.fs = "vfat")

\* C13: the module list given to the image-maker is [biosdisk, <fs module>,
\* search_fs_uuid] for the BIOS platform, [pata, ahci, ohci, uhci, ehci, ubms,
\* <fs module>, search_fs_uuid] for a native-disk platform and [<fs module>,
\* search_fs_uuid] for any other, <fs module> being the module of the probed filesystem.
C13_ModuleList ==
    last.op = "install_platform"
    => /\ last.res = "ok" => last.modules # NoModules
       /\ last.modules # NoModules
          => LET fsModule == getGrubFsName(last.mnt.fs)
             IN /\ ReachesImageMaker(last.p, last.mnt)
                /\ last.modules =
                     IF last.p = I386_PC THEN <<"biosdisk", fsModule, "search_fs_uuid">>
                     ELSE IF last.p \in NativeDiskPlatforms
                     THEN <<"pata", "ahci", "ohci", "uhci", "ehci", "ubms", fsModule, "search_fs_uuid">>
                     ELSE <<fsModule, "search_fs_uuid">>
                /\ last.modules[Len(last.modules)] = "search_fs_uuid"

\* the image of a Loongson platform has been built for a boot directory on ext4
C13_Witness ==
    /\ last.op = "install_platform" /\ last.p = MIPSEL_LOONGSON
    /\ last.mnt = Mount("ABCD-1234", "ext4")
    /\ Len(last.modules) = 8
    /\ fs.plat[MIPSEL_LOONGSON].core.ex

\* C14: after install_platform of an EFI platform X on a mounted-device target whose boot
\* directory is on a FAT filesystem, no load.cfg exists under grub/X.
C14_NoLoadCfg ==
    (/\ last.op = "install_platform" /\ isPlatformEfi(last.p) /\ last.res = "ok"
     /\ targetType = MOUNTED_HDD_DEV /\ last.mnt.fs = "vfat")
    => ~fs.plat[last.p].loadcfg

\* C15: get_platform_install_info(p) for a platform without entry in the map returns a
\* record with status NOT_EXIST, does not raise and adds no entry to the map.
C15_Step ==
    (last'.op = "get_platform_install_info" /\ last'.p \notin Keys(platforms))
    => /\ last'.res = "ok"
       /\ last'.ret.status = NOT_EXIST
       /\ platforms' = platforms
       /\ fs' = fs /\ dev' = dev

C15_AbsentIsNotExist == [][C15_Step]_vars

\* the record of a platform whose directory exists has been asked of a target that holds
\* other platforms and no entry for it
C15_Witness ==
    /\ last.op = "get_platform_install_info" /\ last.res = "ok"
    /\ last.ret.status = NOT_EXIST
    /\ last.p \notin Keys(platforms)
    /\ isdir(fs, <<"grub", last.p>>)
    /\ Len(platforms) > 0

\* the platform directories under grub
PlatformDirs == {pt \in PlatformType : isdir(fs, <<"grub", pt>>)}

\* C16: check() fails whenever the platform directories under grub differ from the
\* platforms of the map (an orphan directory, a recorded platform without directory, no
\* grub directory while the map is not empty) and returns normally when they agree.
C16_CheckCompares ==
    (last.op = "check" /\ mode \in {"R", "RW"})
    => (last.res = "ok" <=> PlatformDirs = Keys(platforms))

\* C17: _Bios.check_and_fill_platform_install_info makes a single pass over its checks
\* and then returns with status BOOTABLE or EXIST, also when boot.img, core.img and the
\* device all match.
C17_BiosCheckTerminates ==
    /\ (tstate = "scanning" \/ verif.state = "running") => ~loop.bOk
    /\ BiosCheckReturned => Get(platforms, I386_PC).status \in {BOOTABLE, EXIST}

\* C18: _Efi.install_platform for platform Y leaves every file under EFI other than Y's
\* own in place: the standard-named file of another EFI platform is still there with its
\* content, and so is any other content of EFI.
C18_Step ==
    (/\ last'.op = "install_platform" /\ verif'.state = "none"
     /\ isPlatformEfi(last'.p) /\ last'.res = "ok")
    => /\ \A n \in EfiFilenames \ {getStandardEfiFilename(last'.p)} : fs'.efiFiles[n] = fs.efiFiles[n]
       /\ fs'.efiOther = fs.efiOther

C18_EfiInstallFrame == [][C18_Step]_vars

\* C19: install_data changes only the locale, fonts and themes subtrees of grub: platform
\* directories, core images, boot.img, core.img and grubenv are as before the call.
C19_Step ==
    (last'.op = "install_data" /\ last'.res = "ok")
    => /\ fs'.plat = fs.plat
       /\ fs'.bootImg = fs.bootImg
       /\ fs'.coreImg = fs.coreImg
       /\ fs'.grubenv = fs.grubenv

C19_InstallDataFrame == [][C19_Step]_vars

\* C20: remove_platform(p) for an installed EFI platform p, on either kind of target,
\* removes EFI/BOOT/<standard name for p>, removes EFI/BOOT and then EFI exactly when
\* they have become empty, and leaves the files of other EFI platforms in place.
C20_Step ==
    (/\ last'.op = "remove_platform" /\ isPlatformEfi(last'.p) /\ WriteCapable
     /\ last'.p \in Keys(platforms)
     /\ fs.efiFiles[getStandardEfiFilename(last'.p)].ex)
    => /\ last'.res = "ok"
       /\ ~fs'.efiFiles[getStandardEfiFilename(last'.p)].ex
       /\ \A n \in EfiFilenames \ {getStandardEfiFilename(last'.p)} : fs'.efiFiles[n] = fs.efiFiles[n]
       /\ fs'.efiBoot <=> (\E n \in EfiFilenames : fs'.efiFiles[n].ex)
       /\ fs'.efi <=> (fs'.efiBoot \/ fs.efiOther)

C20_EfiRemove == [][C20_Step]_vars

\* C21: after a successful BIOS MBR install without floppy compatibility the device's
\* first sector is the source boot.img, except that the BPB region and the region from
\* the NT magic to the end of the partition table hold the bytes the device had before
\* and the two drive-check bytes are 0x90 0x90; core.img follows the first sector.
C21_Step ==
    (/\ last'.op = "install_platform" /\ last'.p = I386_PC /\ verif'.state = "none"
     /\ targetType = MOUNTED_HDD_DEV /\ WriteCapable /\ Suitable(devInfo)
     /\ StatusOf(platforms, I386_PC) # BOOTABLE
     /\ last'.allow_floppy \in {"unset", "False"} /\ last'.rs_codes = "False"
     /\ last'.mnt.fs_uuid # "None"
     /\ Len(last'.src.bootImg) = DISK_SECTOR_SIZE /\ CoreSizeOk(fs.coreImg))
    => /\ last'.res = "ok"
       /\ \A i \in 0..(DISK_SECTOR_SIZE - 1) :
             dev'[i + 1] =
                IF \/ (BOOT_MACHINE_BPB_START <= i /\ i < BOOT_MACHINE_BPB_END)
                   \/ (BOOT_MACHINE_WINDOWS_NT_MAGIC <= i /\ i < BOOT_MACHINE_PART_END)
                THEN dev[i + 1]
                ELSE IF BOOT_MACHINE_DRIVE_CHECK <= i /\ i < BOOT_MACHINE_DRIVE_CHECK + 2 THEN NOP
                ELSE last'.src.bootImg[i + 1]
       /\ \A i \in 1..Len(fs.coreImg.data) : dev'[DISK_SECTOR_SIZE + i] = fs.coreImg.data[i]

C22_Step ==
    /\ (/\ last'.op = "install_platform" /\ last'.p = I386_PC /\ verif'.state = "none"
        /\ targetType = ISO_DIR /\ WriteCapable
        /\ StatusOf(platforms, I386_PC) # BOOTABLE
        /\ last'.mnt.fs_uuid # "None")
       => /\ last'.res = "ok"
          /\ dev' = dev
          /\ StatusOf(platforms', I386_PC) = BOOTABLE
          /\ Target_get_platform_install_info(platforms', I386_PC).mbr_installed = "False"
    /\ (targetType = ISO_DIR /\ I386_PC \in Keys(platforms')) => tstate' # "failed"

C22_StagingBios == [][C22_Step]_vars

\* C23: install_platform fails when the mount probe yields no filesystem UUID, and fails
\* for an EFI platform when the probed filesystem is not vfat; the failure comes before
\* any file below the boot directory is created or changed and before any device write,
\* and the map is unchanged.
C23_Step ==
    (/\ last'.op = "install_platform" /\ verif'.state = "none"
     /\ \/ last'.mnt.fs_uuid = "None"
        \/ (isPlatformEfi(last'.p) /\ last'.mnt.fs # "vfat"))
    => /\ last'.res # "ok"
       /\ fs' = fs
       /\ dev' = dev
       /\ platforms' = platforms

C23_MountFailuresChangeNothing == [][C23_Step]_vars

\* an EFI install on a write-capable Target whose boot directory is not on vfat raised,
\* and the platform's directory was not created
C23_Witness ==
    /\ last.op = "install_platform" /\ isPlatformEfi(last.p)
    /\ WriteCapable /\ StatusOf(platforms, last.p) # BOOTABLE
    /\ last.mnt.fs_uuid # "None" /\ last.mnt.fs # "vfat"
    /\ last.res = "Exception"
    /\ ~isdir(fs, <<"grub", last.p>>)

\* C24: the prefix written into load.cfg is the grub directory path with only its
\* leading mount-point prefix removed, for every mount point that is an ancestor of the
\* grub directory; the first line binds root to the probed filesystem UUID.
C24_LoadCfgPrefix ==
    (last.op = "install_platform" /\ last.loadcfg.written)
    => LET grubDir == os_path_join(bootDir, <<"g", "r", "u", "b">>)
       IN /\ startswith(grubDir, last.mnt.mnt_pt)
          /\ last.loadcfg.uuid = last.mnt.fs_uuid
          /\ last.loadcfg.prefix = SliceFrom(grubDir, Len(last.mnt.mnt_pt))

====
